---- MODULE Spec2Model ----
(***************************************************************************)
(* Model of scripts/sysmon-update.py: the telemetry collector that queries *)
(* the Pi-hole API (login, summary, logout), the host metrics and the      *)
(* container runtime, and writes one JSON snapshot to OUTPUT_FILE.         *)
(*                                                                         *)
(* Python dicts are modelled as functions whose DOMAIN is the key set,     *)
(* lists as sequences, str(e) as a string naming the exception, and a      *)
(* status text as a sequence of one-character strings.                     *)
(***************************************************************************)
EXTENDS Integers, Sequences, FiniteSets, TLC

VARIABLES pc, tick, HAS_REQUESTS, HAS_PSUTIL, updated, sid, pending, reqLog,
          pihole, server, containers, dockerOut, data, file, observed,
          serverIn, zonesRead, waited, hangs, world, firstDoc

vars == <<pc, tick, HAS_REQUESTS, HAS_PSUTIL, updated, sid, pending, reqLog,
          pihole, server, containers, dockerOut, data, file, observed,
          serverIn, zonesRead, waited, hangs, world, firstDoc>>

\* the variables only the specifications of single functions and of the
\* blocking calls use
auxVars == <<serverIn, zonesRead, waited, hangs, world, firstDoc>>

-----------------------------------------------------------------------------
(* Bounds of the model *)

\* number of collector invocations (cron ticks) explored
MaxTicks == 2
\* number of lines of a container listing
MaxLines == 3
\* number of thermal zones (0 .. MaxZones - 1) that may exist on the host
MaxZones == 3

-----------------------------------------------------------------------------
(* Python values *)

\* Python's None
None == "<None>"

\* the dict {}
EmptyDict == [k \in {} |-> 0]

\* d.get(k, default)
Get(d, k, default) == IF k \in DOMAIN d THEN d[k] ELSE default

\* truth value of a str-or-None, as `if sid` takes it
Truthy(v) == v # None /\ v # ""

\* round(x / q) to the nearest integer, ties to even (Python's round), x >= 0
RoundDiv(x, q) ==
    LET lo == x \div q
        r2 == 2 * (x % q)
    IN  IF r2 < q THEN lo
        ELSE IF r2 > q THEN lo + 1
        ELSE IF lo % 2 = 0 THEN lo ELSE lo + 1

-----------------------------------------------------------------------------
(* get_docker_containers *)

\* container names in Python's string order; "" is the name of a line that
\* starts with the separator, and of an empty line
NameList == <<"", "a", "b", "c">>
Names == {NameList[i] : i \in 1..Len(NameList)}
Rank(n) == CHOOSE i \in 1..Len(NameList) : NameList[i] = n

\* status texts as docker prints them; characters as one-character strings
StatusTexts == { <<"U", "p", " ", "2">>, <<"u", "p">>, <<" ", "U", "P">>,
                 <<"E", "x">>, <<"U">> }

\* a line of the listing: name, whether a "|" follows, and the text after it
\* (a line without "|" is its name alone)
Lines == [name : Names, sep : {TRUE}, text : StatusTexts \cup {<<>>}]
         \cup [name : Names, sep : {FALSE}, text : {<<>>}]

\* str.lower on one character
Lower(c) == CASE c = "U" -> "u" [] c = "P" -> "p" [] c = "E" -> "e" [] OTHER -> c

\* str.strip
RECURSIVE LStrip(_)
LStrip(s) == IF s # <<>> /\ Head(s) = " " THEN LStrip(Tail(s)) ELSE s
RECURSIVE RStrip(_)
RStrip(s) ==
    IF s # <<>> /\ s[Len(s)] = " " THEN RStrip(SubSeq(s, 1, Len(s) - 1)) ELSE s
Strip(s) == RStrip(LStrip(s))

\* the literal "unknown" of line 166
Unknown == <<"u", "n", "k", "n", "o", "w", "n">>

\* line.strip() is empty: the line is skipped
IsBlank(line) == line.name = "" /\ ~line.sep /\ Strip(line.text) = <<>>

\* the text a line without separator carries is part of its name; the model
\* draws such lines with the name alone
StatusOf(line) == IF line.sep THEN Strip(line.text) ELSE Unknown

\* status.lower().startswith("up")
StartsWithUp(status) ==
    /\ Len(status) >= 2
    /\ Lower(status[1]) = "u"
    /\ Lower(status[2]) = "p"

DisplayM(running) == "UP"
\* lines 169-172
Display(running) == IF running THEN "UP" ELSE "DOWN"

\* lines 164-173: the entry appended for one non-blank line
ParseLine(line) ==
    LET running == StartsWithUp(StatusOf(line))
    IN  [name |-> line.name, status |-> Display(running), running |-> running]

SortKeyM(x) == <<x.running, x.name>>
\* the key of line 174
SortKey(x) == <<~x.running, x.name>>

\* Python's ordering of (bool, str) tuples: False < True, then the names
KeyLess(k1, k2) ==
    \/ k1[1] = FALSE /\ k2[1] = TRUE
    \/ k1[1] = k2[1] /\ Rank(k1[2]) < Rank(k2[2])

\* x put behind every element whose key is not greater: keeps sorted() stable
RECURSIVE Insert(_, _)
Insert(x, s) ==
    IF s = <<>> THEN <<x>>
    ELSE IF KeyLess(SortKey(x), SortKey(Head(s))) THEN <<x>> \o s
    ELSE <<Head(s)>> \o Insert(x, Tail(s))

RECURSIVE InsertAll(_, _)
InsertAll(todo, done) ==
    IF todo = <<>> THEN done ELSE InsertAll(Tail(todo), Insert(Head(todo), done))

\* sorted(containers, key=...)
Sorted(s) == InsertAll(s, <<>>)

\* the loop of lines 160-173
RECURSIVE ParseLines(_)
ParseLines(lines) ==
    IF lines = <<>> THEN <<>>
    ELSE IF IsBlank(Head(lines)) THEN ParseLines(Tail(lines))
    ELSE <<ParseLine(Head(lines))>> \o ParseLines(Tail(lines))

\* what subprocess.check_output(...).decode() can do: return the listing, or
\* raise (runtime absent, timeout, non-zero exit, undecodable output)
DockerErrors == {"FileNotFoundError", "TimeoutExpired", "CalledProcessError",
                 "UnicodeDecodeError"}

DockerErrorEntryM(msg) == <<>>
\* line 176
DockerErrorEntry(msg) == <<[name |-> "docker error", status |-> msg, running |-> FALSE]>>

\* lines 155-176; out is [ok, lines, err]
get_docker_containers(out) ==
    IF out.ok THEN Sorted(ParseLines(out.lines)) ELSE DockerErrorEntry(out.err)

\* the sequences over S of length at most n
SeqsUpTo(S, n) == UNION {[1..k -> S] : k \in 0..n}

\* every outcome of the listing command, up to n lines
DockerOutcomes(n) ==
    {[ok |-> TRUE, lines |-> l, err |-> ""] : l \in SeqsUpTo(Lines, n)}
    \cup {[ok |-> FALSE, lines |-> <<>>, err |-> e] : e \in DockerErrors}

\* the listing of the documented example: b Up, a Exited, c Up
ExampleListing ==
    << [name |-> "b", sep |-> TRUE, text |-> <<"U", "p", " ", "2">>],
       [name |-> "a", sep |-> TRUE, text |-> <<"E", "x">>],
       [name |-> "c", sep |-> TRUE, text |-> <<"U", "p", " ", "2">>] >>

-----------------------------------------------------------------------------
(* get_pihole_stats *)

CounterKeys == {"queries_today", "ads_blocked_today", "ads_percentage_today",
                "domains_being_blocked", "queries_forwarded", "queries_cached",
                "unique_clients"}

\* what requests.post(f"{base}/auth", ...) can do: raise (unreachable, timed
\* out), or return a response; requests follows redirects itself, so the
\* response it returns carries a 2xx or a 4xx/5xx status.  The body is not
\* JSON, JSON without ["session"]["sid"], or carries a sid (null when the
\* service has no password, a string otherwise)
LoginOutcomes ==
    {[raised |-> TRUE, status |-> 0, json |-> FALSE, hasSid |-> FALSE, sid |-> None]}
    \cup [raised : {FALSE}, status : {200, 401}, json : {FALSE}, hasSid : {FALSE},
          sid : {None}]
    \cup [raised : {FALSE}, status : {200, 401}, json : {TRUE}, hasSid : {FALSE},
          sid : {None}]
    \cup [raised : {FALSE}, status : {200, 401}, json : {TRUE}, hasSid : {TRUE},
          sid : {None, "", "tok"}]

RaisesForStatusM(status) == FALSE
\* r.raise_for_status(), line 60: raises HTTPError for 4xx and 5xx
RaisesForStatus(status) == status >= 400 /\ status < 600

\* lines 59-61: [ok, sid, err]; err is str(e) of the exception raised
LoginResult(o) ==
    IF o.raised THEN [ok |-> FALSE, sid |-> None, err |-> "ConnectionError"]
    ELSE IF RaisesForStatus(o.status) THEN [ok |-> FALSE, sid |-> None, err |-> "HTTPError"]
    ELSE IF ~o.json THEN [ok |-> FALSE, sid |-> None, err |-> "JSONDecodeError"]
    ELSE IF ~o.hasSid THEN [ok |-> FALSE, sid |-> None, err |-> "KeyError"]
    ELSE [ok |-> TRUE, sid |-> o.sid, err |-> ""]

\* summary documents: percent_blocked in thousandths of a percent
FullSummary ==
    [queries |-> [total |-> 50, blocked |-> 20, percent_blocked |-> 40125,
                  forwarded |-> 25, cached |-> 5],
     gravity |-> [domains_being_blocked |-> 900],
     clients |-> [active |-> 3]]
PartSummary == [queries |-> [total |-> 7, percent_blocked |-> 14286]]
\* the body the service sends with a 401: no counter in it
ErrorSummary == [error |-> "unauthorized"]

\* what requests.get(f"{base}/stats/summary", ...).json() can meet: a raise
\* in transport, or a response of any status whose body is not JSON, JSON
\* that is no object ("list"), an object with a counter group that is no
\* object ("badfield"), or an object s
SummaryOutcomes ==
    {[raised |-> TRUE, status |-> 0, body |-> "notjson", s |-> EmptyDict]}
    \cup [raised : {FALSE}, status : {200, 401}, body : {"notjson", "list", "badfield"},
          s : {EmptyDict}]
    \cup [raised : {FALSE}, status : {200, 401}, body : {"object"},
          s : {FullSummary, PartSummary, ErrorSummary}]

\* lines 67-79; ads_percentage_today in hundredths of a percent
CountersOf(s) ==
    LET q   == Get(s, "queries", EmptyDict)
        g   == Get(s, "gravity", EmptyDict)
        cli == Get(s, "clients", EmptyDict)
    IN  [queries_today         |-> Get(q, "total", 0),
         ads_blocked_today     |-> Get(q, "blocked", 0),
         ads_percentage_today  |-> RoundDiv(Get(q, "percent_blocked", 0), 10),
         domains_being_blocked |-> Get(g, "domains_being_blocked", 0),
         queries_forwarded     |-> Get(q, "forwarded", 0),
         queries_cached        |-> Get(q, "cached", 0),
         unique_clients        |-> Get(cli, "active", 0)]

\* line 82
ErrorDict(msg) == [error |-> msg]

\* lines 65-82: the value the try block returns for a summary outcome; the
\* response's status is not looked at
SummaryResult(o) ==
    IF o.raised THEN ErrorDict("ConnectionError")
    ELSE IF o.body = "notjson" THEN ErrorDict("JSONDecodeError")
    ELSE IF o.body \in {"list", "badfield"} THEN ErrorDict("AttributeError")
    ELSE CountersOf(o.s)

ExitTryM(how) == IF how = "except" THEN "return" ELSE "finally"
\* lines 84-90: every way out of the try block, the return of line 71 and
\* the except of line 81, runs the finally block before the function returns
ExitTry(how) == "finally"

\* line 86
ShouldLogout(s, hasRequests) == Truthy(s) /\ hasRequests

AfterLogoutM(decided, raised) ==
    IF raised THEN [error |-> "ConnectionError"] ELSE decided
\* lines 87-90: the value the function is about to return, after a logout
\* that raised or not (except Exception: pass)
AfterLogout(decided, raised) == decided

\* lines 49-90 as one call: the value returned for the outcomes lo of the
\* login and so of the summary fetch; the finally block changes no result
get_pihole_stats(hasRequests, lo, so) ==
    IF ~hasRequests THEN EmptyDict
    ELSE IF ~LoginResult(lo).ok THEN ErrorDict(LoginResult(lo).err)
    ELSE SummaryResult(so)

-----------------------------------------------------------------------------
(* get_server_stats *)

\* thermal zones probed, line 139
NumZones == 10

\* one psutil sample: percentages in hundredths, loads in thousandths
PsutilSample ==
    [cpu |-> 1234, mem |-> 4567, mem_used |-> 4, mem_total |-> 8, disk |-> 5050,
     disk_used |-> 10, disk_total |-> 20, load1 |-> 125, load5 |-> 15]

\* lines 112-118: f"{days}d {hours}h" / f"{hours}h {mins}m" as tuples
UptimeRich(up_secs) ==
    LET days  == up_secs \div 86400
        hours == (up_secs % 86400) \div 3600
        mins  == (up_secs % 3600) \div 60
    IN  IF days > 0 THEN <<days, "d", hours, "h">> ELSE <<hours, "h", mins, "m">>

UptimeFallbackM(up_secs) == UptimeRich(up_secs)
\* lines 131-133
UptimeFallback(up_secs) ==
    LET days  == up_secs \div 86400
        hours == (up_secs % 86400) \div 3600
    IN  <<days, "d", hours, "h">>

\* lines 98-118; percentages in tenths, loads in hundredths
RichStats(ps, up_secs) ==
    [cpu_pct    |-> RoundDiv(ps.cpu, 10),
     mem_pct    |-> RoundDiv(ps.mem, 10),
     mem_used   |-> ps.mem_used,
     mem_total  |-> ps.mem_total,
     disk_pct   |-> RoundDiv(ps.disk, 10),
     disk_used  |-> ps.disk_used,
     disk_total |-> ps.disk_total,
     load_1     |-> RoundDiv(ps.load1, 10),
     load_5     |-> RoundDiv(ps.load5, 10),
     uptime_str |-> UptimeRich(up_secs)]

\* lines 121-127; the pseudo-file is "missing", holds one number ("short":
\* parts[1] raises after load_1 was stored) or both ("ok")
FallbackLoad(loadFile) ==
    CASE loadFile = "ok"    -> [load_1 |-> 125, load_5 |-> 15]
      [] loadFile = "short" -> [load_1 |-> 125]
      [] OTHER              -> EmptyDict

\* lines 128-135
FallbackUptime(upFile, up_secs) ==
    IF upFile = "ok" THEN [uptime_str |-> UptimeFallback(up_secs)] ELSE EmptyDict

InRangeM(milli) == 10000 <= milli /\ milli <= 120000
\* line 144, in thousandths of a degree
InRange(milli) == 10000 < milli /\ milli < 120000

RECURSIVE ProbeTempM(_, _, _)
ProbeTempM(zones, i, reads) ==
    IF i >= 10 \/ i >= Len(zones)
    THEN [found |-> FALSE, temp |-> 0, reads |-> reads]
    ELSE LET z == zones[i + 1]
         IN  IF ~z.exists THEN ProbeTempM(zones, i + 1, reads)
             ELSE IF ~z.readable THEN ProbeTempM(zones, i + 1, reads \cup {i})
             ELSE IF 10000 < z.milli /\ z.milli < 120000
             THEN [found |-> TRUE, temp |-> RoundDiv(z.milli, 100), reads |-> reads \cup {i}]
             ELSE ProbeTempM(zones, i + 1, reads \cup {i})

\* lines 138-148 from zone i on; zones[i + 1] is zone i: [exists, readable,
\* milli].  Yields the reading in tenths of a degree (found) and the zones read
RECURSIVE ProbeTemp(_, _, _)
ProbeTemp(zones, i, reads) ==
    IF i >= NumZones \/ i >= Len(zones)
    THEN [found |-> FALSE, temp |-> 0, reads |-> reads]
    ELSE LET z == zones[i + 1]
         IN  IF ~z.exists THEN ProbeTemp(zones, i + 1, reads)
             ELSE IF ~z.readable
             THEN [found |-> FALSE, temp |-> 0, reads |-> reads \cup {i}]
             ELSE IF InRange(z.milli)
             THEN [found |-> TRUE, temp |-> RoundDiv(z.milli, 100), reads |-> reads \cup {i}]
             ELSE ProbeTemp(zones, i + 1, reads \cup {i})

FallbackStatsM(loadFile, upFile, up_secs) ==
    IF loadFile = "ok"
    THEN FallbackLoad(loadFile) @@ FallbackUptime(upFile, up_secs)
    ELSE FallbackLoad(loadFile)
\* lines 121-135: two try blocks, one after the other
FallbackStats(loadFile, upFile, up_secs) ==
    FallbackLoad(loadFile) @@ FallbackUptime(upFile, up_secs)

\* lines 93-150; inp is [psutilRaises, up_secs, loadFile, upFile, zones].
\* A psutil call that raises is not caught inside the function.  reads is
\* the set of thermal zones whose file was read
get_server_stats(hasPsutil, inp) ==
    LET base == IF hasPsutil THEN RichStats(PsutilSample, inp.up_secs)
                ELSE FallbackStats(inp.loadFile, inp.upFile, inp.up_secs)
        t    == ProbeTemp(inp.zones, 0, {})
    IN  IF hasPsutil /\ inp.psutilRaises
        THEN [raised |-> TRUE, stats |-> EmptyDict, reads |-> {}]
        ELSE [raised |-> FALSE,
              stats  |-> IF t.found THEN base @@ [temp_c |-> t.temp] ELSE base,
              reads  |-> t.reads]

Zone(e, r, m) == [exists |-> e, readable |-> r, milli |-> m]

\* the documented example: zones 0, 1, 2 report 5000, 45000, 999999
ExampleZones ==
    <<Zone(TRUE, TRUE, 5000), Zone(TRUE, TRUE, 45000), Zone(TRUE, TRUE, 999999)>>

\* what a thermal zone can be: no file, a file that cannot be read or parsed,
\* or a reading in thousandths of a degree
ZoneStates ==
    {Zone(FALSE, FALSE, 0), Zone(TRUE, FALSE, 0)}
    \cup {Zone(TRUE, TRUE, m) : m \in {5000, 10000, 45000, 120000, 999999}}

\* uptimes in whole seconds
UpSecs == {0, 59, 3000, 3600, 86399, 86400, 90000, 180122}

\* the hosts get_server_stats is checked against, with zones 0 .. n - 1:
\* with psutil (its calls raise or not), and without it (the pseudo-files
\* readable or not)
ServerCases(n) ==
    [hasPsutil : {TRUE},
     inp : [psutilRaises : BOOLEAN, up_secs : UpSecs, loadFile : {"ok"}, upFile : {"ok"},
            zones : SeqsUpTo(ZoneStates, n)]]
    \cup
    [hasPsutil : {FALSE},
     inp : [psutilRaises : {FALSE}, up_secs : UpSecs, loadFile : {"ok", "short", "missing"},
            upFile : {"ok", "missing"}, zones : SeqsUpTo(ZoneStates, n)]]

\* host states the collector is run against
ServerInputs ==
    { [psutilRaises |-> FALSE, up_secs |-> 90000, loadFile |-> "ok", upFile |-> "ok",
       zones |-> ExampleZones],
      [psutilRaises |-> TRUE, up_secs |-> 3000, loadFile |-> "missing", upFile |-> "ok",
       zones |-> <<>>],
      [psutilRaises |-> FALSE, up_secs |-> 3000, loadFile |-> "ok", upFile |-> "missing",
       zones |-> <<>>] }

-----------------------------------------------------------------------------
(* main *)

\* line 45, the default offset
UTC_OFFSET_HOURS == -6

\* lines 180-181: "%-I:%M %p" lower-cased, of the UTC minute of the day
FormatUpdated(utcMinute) ==
    LET local == (utcMinute + UTC_OFFSET_HOURS * 60) % 1440
        h24   == local \div 60
        h12   == IF h24 % 12 = 0 THEN 12 ELSE h24 % 12
    IN  <<h12, local % 60, IF h24 < 12 THEN "am" ELSE "pm">>

\* the UTC minute of the day at which invocation n starts
NowAt(n) == (300 + 825 * n) % 1440

SnapshotKeys == {"updated", "pihole", "server", "containers"}

AssembleM(u, p, s, c) ==
    IF "error" \in DOMAIN p THEN [updated |-> u, server |-> s, containers |-> c]
    ELSE [updated |-> u, pihole |-> p, server |-> s, containers |-> c]
\* lines 183-188
Assemble(u, p, s, c) == [updated |-> u, pihole |-> p, server |-> s, containers |-> c]

\* json.dump(data, f, indent=2): the top-level entries in insertion order
KeyOrder == <<"updated", "pihole", "server", "containers">>
RECURSIVE SerializeFrom(_, _)
SerializeFrom(d, i) ==
    IF i > Len(KeyOrder) THEN <<>>
    ELSE IF KeyOrder[i] \in DOMAIN d
    THEN <<[key |-> KeyOrder[i], value |-> d[KeyOrder[i]]]>> \o SerializeFrom(d, i + 1)
    ELSE SerializeFrom(d, i + 1)
Serialize(d) == SerializeFrom(d, 1)

\* the output path before the first run
NoFile == [exists |-> FALSE, content |-> <<>>, whole |-> FALSE]

\* what a reader that opens the path and reads to the end gets
ReadFile(f) ==
    IF ~f.exists THEN "absent" ELSE IF f.whole THEN "complete" ELSE "truncated"

OpenForWritingM(f) == [exists |-> TRUE, content |-> f.content, whole |-> FALSE]
\* line 190, open(OUTPUT_FILE, "w"): the file is created, or cut to length 0
OpenForWriting(f) == [exists |-> TRUE, content |-> <<>>, whole |-> FALSE]

\* the listings the collector is run against
DockerOutcomesMain ==
    {[ok |-> TRUE, lines |-> ExampleListing, err |-> ""],
     [ok |-> TRUE, lines |-> <<>>, err |-> ""],
     [ok |-> FALSE, lines |-> <<>>, err |-> "FileNotFoundError"]}

-----------------------------------------------------------------------------
(* State after construction, shared by the specifications below *)

Init ==
    /\ pc = "idle"
    /\ tick = 0
    /\ HAS_REQUESTS = TRUE
    /\ HAS_PSUTIL = TRUE
    /\ updated = <<>>
    /\ sid = None
    /\ pending = EmptyDict
    /\ reqLog = <<>>
    /\ pihole = EmptyDict
    /\ server = EmptyDict
    /\ containers = <<>>
    /\ dockerOut = [ok |-> TRUE, lines |-> <<>>, err |-> ""]
    /\ data = EmptyDict
    /\ file = NoFile
    /\ observed = "nothing"
    /\ serverIn = [hasPsutil |-> TRUE, inp |-> EmptyDict]
    /\ zonesRead = {}
    /\ waited = -1
    /\ hangs = {}
    /\ world = EmptyDict
    /\ firstDoc = EmptyDict

-----------------------------------------------------------------------------
(* main as a process: one invocation per tick of the scheduler, and a      *)
(* reader of the output path running beside it                             *)

\* lines 21-31 and 180-181: the scheduler starts the script; the imports
\* decide HAS_PSUTIL and HAS_REQUESTS, main computes the timestamp
StartProcess ==
    /\ pc \in {"idle", "done", "crashed", "failed"}
    /\ tick < MaxTicks
    /\ tick' = tick + 1
    /\ \E r \in BOOLEAN, p \in BOOLEAN :
          /\ HAS_REQUESTS' = r
          /\ HAS_PSUTIL' = p
    /\ updated' = FormatUpdated(NowAt(tick))
    /\ pihole' = EmptyDict
    /\ server' = EmptyDict
    /\ containers' = <<>>
    /\ data' = EmptyDict
    /\ pc' = "pihole"
    /\ UNCHANGED <<sid, pending, reqLog, dockerOut, file, observed>>
    /\ UNCHANGED auxVars

\* line 185
CallPihole ==
    /\ pc = "pihole"
    /\ \E lo \in LoginOutcomes, so \in SummaryOutcomes :
          pihole' = get_pihole_stats(HAS_REQUESTS, lo, so)
    /\ pc' = "server"
    /\ UNCHANGED <<tick, HAS_REQUESTS, HAS_PSUTIL, updated, sid, pending, reqLog,
                   server, containers, dockerOut, data, file, observed>>
    /\ UNCHANGED auxVars

\* line 186; an exception out of get_server_stats leaves main at once
CallServer ==
    /\ pc = "server"
    /\ \E inp \in ServerInputs :
          LET res == get_server_stats(HAS_PSUTIL, inp)
          IN  IF res.raised
              THEN /\ pc' = "crashed"
                   /\ UNCHANGED server
              ELSE /\ server' = res.stats
                   /\ pc' = "docker"
    /\ UNCHANGED <<tick, HAS_REQUESTS, HAS_PSUTIL, updated, sid, pending, reqLog,
                   pihole, containers, dockerOut, data, file, observed>>
    /\ UNCHANGED auxVars

\* lines 187-188: the last adapter, then the dict is built
CallContainers ==
    /\ pc = "docker"
    /\ \E out \in DockerOutcomesMain :
          /\ containers' = get_docker_containers(out)
          /\ data' = Assemble(updated, pihole, server, get_docker_containers(out))
    /\ pc' = "open"
    /\ UNCHANGED <<tick, HAS_REQUESTS, HAS_PSUTIL, updated, sid, pending, reqLog,
                   pihole, server, dockerOut, file, observed>>
    /\ UNCHANGED auxVars

\* line 190: open(OUTPUT_FILE, "w") creates the file or cuts it to length 0
OpenOutput ==
    /\ pc = "open"
    /\ file' = OpenForWriting(file)
    /\ pc' = "dump"
    /\ UNCHANGED <<tick, HAS_REQUESTS, HAS_PSUTIL, updated, sid, pending, reqLog,
                   pihole, server, containers, dockerOut, data, observed>>
    /\ UNCHANGED auxVars

\* line 190 raising (no such directory, no permission): the path is untouched
OpenFails ==
    /\ pc = "open"
    /\ pc' = "failed"
    /\ UNCHANGED <<tick, HAS_REQUESTS, HAS_PSUTIL, updated, sid, pending, reqLog,
                   pihole, server, containers, dockerOut, data, file, observed>>
    /\ UNCHANGED auxVars

\* line 191: json.dump writes the document piece by piece; the file object
\* passes a full buffer on to the file before the document is complete
FlushPart ==
    /\ pc = "dump"
    /\ \E n \in 1..(Len(Serialize(data)) - 1) :
          /\ n > Len(file.content)
          /\ file' = [file EXCEPT !.content = SubSeq(Serialize(data), 1, n)]
    /\ UNCHANGED <<pc, tick, HAS_REQUESTS, HAS_PSUTIL, updated, sid, pending, reqLog,
                   pihole, server, containers, dockerOut, data, observed>>
    /\ UNCHANGED auxVars

\* line 191 or the close of line 190 raising (disk full, I/O error)
WriteFails ==
    /\ pc = "dump"
    /\ pc' = "failed"
    /\ UNCHANGED <<tick, HAS_REQUESTS, HAS_PSUTIL, updated, sid, pending, reqLog,
                   pihole, server, containers, dockerOut, data, file, observed>>
    /\ UNCHANGED auxVars

\* the end of the with block: the rest is written and the file closed
CloseOutput ==
    /\ pc = "dump"
    /\ file' = [exists |-> TRUE, content |-> Serialize(data), whole |-> TRUE]
    /\ pc' = "report"
    /\ UNCHANGED <<tick, HAS_REQUESTS, HAS_PSUTIL, updated, sid, pending, reqLog,
                   pihole, server, containers, dockerOut, data, observed>>
    /\ UNCHANGED auxVars

\* line 193
Report ==
    /\ pc = "report"
    /\ pc' = "done"
    /\ UNCHANGED <<tick, HAS_REQUESTS, HAS_PSUTIL, updated, sid, pending, reqLog,
                   pihole, server, containers, dockerOut, data, file, observed>>
    /\ UNCHANGED auxVars

\* the dashboard (another process) reads the output path
ReaderReads ==
    /\ observed' = ReadFile(file)
    /\ UNCHANGED <<pc, tick, HAS_REQUESTS, HAS_PSUTIL, updated, sid, pending, reqLog,
                   pihole, server, containers, dockerOut, data, file>>
    /\ UNCHANGED auxVars

Next ==
    \/ StartProcess
    \/ CallPihole
    \/ CallServer
    \/ CallContainers
    \/ OpenOutput
    \/ OpenFails
    \/ FlushPart
    \/ WriteFails
    \/ CloseOutput
    \/ Report
    \/ ReaderReads

Spec == Init /\ [][Next]_vars

-----------------------------------------------------------------------------
(* get_pihole_stats request by request: pc walks through the function,     *)
(* reqLog records the requests sent                                        *)

\* an entry of the log of requests sent to the Pi-hole API
Req(name, o) == [req |-> name, raised |-> o.raised, status |-> o.status]

\* line 49: the call, in a process whose import of requests worked or not
EnterPihole ==
    /\ pc = "idle"
    /\ \E r \in BOOLEAN : HAS_REQUESTS' = r
    /\ pc' = "entry"
    /\ UNCHANGED <<tick, HAS_PSUTIL, updated, sid, pending, reqLog, pihole, server,
                   containers, dockerOut, data, file, observed>>
    /\ UNCHANGED auxVars

\* lines 51-52
NoRequests ==
    /\ pc = "entry"
    /\ ~HAS_REQUESTS
    /\ pihole' = EmptyDict
    /\ pc' = "returned"
    /\ UNCHANGED <<tick, HAS_REQUESTS, HAS_PSUTIL, updated, sid, pending, reqLog,
                   server, containers, dockerOut, data, file, observed>>
    /\ UNCHANGED auxVars

\* lines 54-61, and 81-82 when the login raises
Login ==
    /\ pc = "entry"
    /\ HAS_REQUESTS
    /\ \E o \in LoginOutcomes :
          LET res == LoginResult(o)
          IN  /\ reqLog' = Append(reqLog, Req("login", o))
              /\ IF res.ok
                 THEN /\ sid' = res.sid
                      /\ pc' = "summary"
                      /\ UNCHANGED pending
                 ELSE /\ sid' = None
                      /\ pending' = ErrorDict(res.err)
                      /\ pc' = ExitTry("except")
    /\ UNCHANGED <<tick, HAS_REQUESTS, HAS_PSUTIL, updated, pihole, server,
                   containers, dockerOut, data, file, observed>>
    /\ UNCHANGED auxVars

\* lines 64-79, and 81-82 when the fetch or the parsing raises
Summary ==
    /\ pc = "summary"
    /\ \E o \in SummaryOutcomes :
          LET res == SummaryResult(o)
          IN  /\ reqLog' = Append(reqLog, Req("summary", o))
              /\ pending' = res
              /\ pc' = ExitTry(IF "error" \in DOMAIN res THEN "except" ELSE "return")
    /\ UNCHANGED <<tick, HAS_REQUESTS, HAS_PSUTIL, updated, sid, pihole, server,
                   containers, dockerOut, data, file, observed>>
    /\ UNCHANGED auxVars

\* lines 86-90 with the condition true: the DELETE is sent, and whatever it
\* raises is passed over
Logout ==
    /\ pc = "finally"
    /\ ShouldLogout(sid, HAS_REQUESTS)
    /\ \E raised \in BOOLEAN :
          /\ reqLog' = Append(reqLog, [req |-> "logout", raised |-> raised,
                                       status |-> IF raised THEN 0 ELSE 204])
          /\ pending' = AfterLogout(pending, raised)
    /\ pc' = "return"
    /\ UNCHANGED <<tick, HAS_REQUESTS, HAS_PSUTIL, updated, sid, pihole,
                   server, containers, dockerOut, data, file, observed>>
    /\ UNCHANGED auxVars

\* line 86 with the condition false
SkipLogout ==
    /\ pc = "finally"
    /\ ~ShouldLogout(sid, HAS_REQUESTS)
    /\ pc' = "return"
    /\ UNCHANGED <<tick, HAS_REQUESTS, HAS_PSUTIL, updated, sid, pending, reqLog,
                   pihole, server, containers, dockerOut, data, file, observed>>
    /\ UNCHANGED auxVars

\* the function hands the value decided at line 71 or 82 to its caller
PiholeReturn ==
    /\ pc = "return"
    /\ pihole' = pending
    /\ pc' = "returned"
    /\ UNCHANGED <<tick, HAS_REQUESTS, HAS_PSUTIL, updated, sid, pending, reqLog,
                   server, containers, dockerOut, data, file, observed>>
    /\ UNCHANGED auxVars

NextPihole ==
    \/ EnterPihole
    \/ NoRequests
    \/ Login
    \/ Summary
    \/ Logout
    \/ SkipLogout
    \/ PiholeReturn

SpecPihole == Init /\ [][NextPihole]_vars

-----------------------------------------------------------------------------
(* get_docker_containers on its own, over every listing of up to MaxLines  *)
(* lines                                                                   *)

\* line 187 alone
CallDocker ==
    /\ pc = "idle"
    /\ \E out \in DockerOutcomes(MaxLines) :
          /\ dockerOut' = out
          /\ containers' = get_docker_containers(out)
    /\ pc' = "docker_done"
    /\ UNCHANGED <<tick, HAS_REQUESTS, HAS_PSUTIL, updated, sid, pending, reqLog,
                   pihole, server, data, file, observed>>
    /\ UNCHANGED auxVars

NextDocker == CallDocker

SpecDocker == Init /\ [][NextDocker]_vars

-----------------------------------------------------------------------------
(* get_server_stats on its own, over hosts with up to MaxZones thermal     *)
(* zones                                                                   *)

\* line 186 alone
CallServerStats ==
    /\ pc = "idle"
    /\ \E c \in ServerCases(MaxZones) :
          LET res == get_server_stats(c.hasPsutil, c.inp)
          IN  /\ serverIn' = c
              /\ HAS_PSUTIL' = c.hasPsutil
              /\ server' = res.stats
              /\ zonesRead' = res.reads
              /\ pc' = IF res.raised THEN "server_raised" ELSE "server_done"
    /\ UNCHANGED <<tick, HAS_REQUESTS, updated, sid, pending, reqLog, pihole,
                   containers, dockerOut, data, file, observed>>
    /\ UNCHANGED <<waited, hangs, world, firstDoc>>

NextServer == CallServerStats

SpecServer == Init /\ [][NextServer]_vars

-----------------------------------------------------------------------------
(* The blocking calls of one invocation of main, with the time each one    *)
(* waits: a call is sent, then its peer answers, or the time runs out.     *)
(* hangs is the set of calls whose peer never answers                      *)

Calls == {"login", "summary", "logout", "docker"}

TimeoutOfM(call) == IF call = "docker" THEN 0 ELSE 5
\* the timeout= argument of lines 59, 65, 88 and 158, in seconds; 0 stands
\* for a call without one
TimeoutOf(call) == IF call = "docker" THEN 10 ELSE 5

NextCallM(call, ok, s) ==
    CASE call = "login"   -> IF ok THEN "summary" ELSE "login"
      [] call = "summary" -> IF ShouldLogout(s, TRUE) THEN "logout" ELSE "server"
      [] call = "logout"  -> "server"
      [] call = "docker"  -> "write"
\* where main goes on when a call has returned (ok) or raised: lines 57-90
\* for the three requests, s being the sid held; lines 155-176 and 190 for
\* the listing
NextCall(call, ok, s) ==
    CASE call = "login"   -> IF ok THEN "summary"
                             ELSE IF ShouldLogout(s, TRUE) THEN "logout" ELSE "server"
      [] call = "summary" -> IF ShouldLogout(s, TRUE) THEN "logout" ELSE "server"
      [] call = "logout"  -> "server"
      [] call = "docker"  -> "write"

\* the script is started; the peers that will never answer are fixed
StartCalls ==
    /\ pc = "idle"
    /\ \E r \in BOOLEAN, p \in BOOLEAN, h \in SUBSET Calls :
          /\ HAS_REQUESTS' = r
          /\ HAS_PSUTIL' = p
          /\ hangs' = h
          /\ pc' = IF r THEN "login" ELSE "server"
    /\ UNCHANGED <<tick, updated, sid, pending, reqLog, pihole, server, containers,
                   dockerOut, data, file, observed, serverIn, zonesRead, waited,
                   world, firstDoc>>

\* lines 59, 65, 88, 156: the call is made and main blocks in it
SendCall ==
    /\ pc \in Calls
    /\ waited = -1
    /\ reqLog' = Append(reqLog, [req |-> pc])
    /\ waited' = 0
    /\ UNCHANGED <<pc, tick, HAS_REQUESTS, HAS_PSUTIL, updated, sid, pending, pihole,
                   server, containers, dockerOut, data, file, observed, serverIn,
                   zonesRead, hangs, world, firstDoc>>

\* a second passes with main blocked in the call
Elapse ==
    /\ pc \in Calls
    /\ waited >= 0
    /\ waited < TimeoutOf(pc)
    /\ waited' = waited + 1
    /\ UNCHANGED <<pc, tick, HAS_REQUESTS, HAS_PSUTIL, updated, sid, pending, reqLog,
                   pihole, server, containers, dockerOut, data, file, observed,
                   serverIn, zonesRead, hangs, world, firstDoc>>

\* the peer answers: the call returns or raises; a login that returns
\* yields a sid
Responds ==
    /\ pc \in Calls
    /\ waited >= 0
    /\ pc \notin hangs
    /\ \E ok \in BOOLEAN, s \in {None, "", "tok"} :
          LET held == IF pc = "login" THEN (IF ok THEN s ELSE None) ELSE sid
          IN  /\ sid' = held
              /\ pc' = NextCall(pc, ok, held)
    /\ waited' = -1
    /\ UNCHANGED <<tick, HAS_REQUESTS, HAS_PSUTIL, updated, pending, reqLog, pihole,
                   server, containers, dockerOut, data, file, observed, serverIn,
                   zonesRead, hangs, world, firstDoc>>

\* the time given to the call is over: requests raises Timeout,
\* check_output raises TimeoutExpired
TimeoutFires ==
    /\ pc \in Calls
    /\ TimeoutOf(pc) > 0
    /\ waited = TimeoutOf(pc)
    /\ pc' = NextCall(pc, FALSE, sid)
    /\ waited' = -1
    /\ UNCHANGED <<tick, HAS_REQUESTS, HAS_PSUTIL, updated, sid, pending, reqLog,
                   pihole, server, containers, dockerOut, data, file, observed,
                   serverIn, zonesRead, hangs, world, firstDoc>>

\* line 186: local reads only; a psutil call may raise
ServerStep ==
    /\ pc = "server"
    /\ \E raises \in BOOLEAN :
          pc' = IF HAS_PSUTIL /\ raises THEN "crashed" ELSE "docker"
    /\ UNCHANGED <<tick, HAS_REQUESTS, HAS_PSUTIL, updated, sid, pending, reqLog,
                   pihole, server, containers, dockerOut, data, file, observed,
                   serverIn, zonesRead, waited, hangs, world, firstDoc>>

\* lines 190-193: the snapshot is written, or the write raises
WriteStep ==
    /\ pc = "write"
    /\ \E ok \in BOOLEAN : pc' = IF ok THEN "done" ELSE "failed"
    /\ UNCHANGED <<tick, HAS_REQUESTS, HAS_PSUTIL, updated, sid, pending, reqLog,
                   pihole, server, containers, dockerOut, data, file, observed,
                   serverIn, zonesRead, waited, hangs, world, firstDoc>>

NextCalls ==
    \/ StartCalls
    \/ SendCall
    \/ Elapse
    \/ Responds
    \/ TimeoutFires
    \/ ServerStep
    \/ WriteStep

\* the process is scheduled and time passes as long as a step is possible
SpecCalls == Init /\ [][NextCalls]_vars /\ WF_vars(NextCalls)

-----------------------------------------------------------------------------
(* The collector run again and again against sources that do not change:   *)
(* world holds what the sources answer, firstDoc the document of the first *)
(* run that wrote one                                                      *)

Worlds ==
    [hasRequests : BOOLEAN, hasPsutil : BOOLEAN, lo : LoginOutcomes,
     so : SummaryOutcomes, inp : ServerInputs, out : DockerOutcomesMain]

\* lines 180-188 against the sources w at the time u
Collect(w, u) ==
    LET srv == get_server_stats(w.hasPsutil, w.inp)
    IN  [raised |-> srv.raised,
         data   |-> Assemble(u, get_pihole_stats(w.hasRequests, w.lo, w.so),
                             srv.stats, get_docker_containers(w.out))]

\* lines 190-191 on the file f: how is "written", "open_fails" or
\* "dump_fails" (the first entry has reached the file when json.dump raises)
WriteSnapshot(f, d, how) ==
    LET opened == OpenForWriting(f)
    IN  CASE how = "open_fails" -> f
          [] how = "dump_fails" ->
                [opened EXCEPT !.content = @ \o SubSeq(Serialize(d), 1, 1)]
          [] how = "written" ->
                [opened EXCEPT !.content = @ \o Serialize(d), !.whole = TRUE]

\* what the sources answer is fixed for the runs that follow
FixSources ==
    /\ pc = "idle"
    /\ \E w \in Worlds :
          /\ world' = w
          /\ HAS_REQUESTS' = w.hasRequests
          /\ HAS_PSUTIL' = w.hasPsutil
    /\ pc' = "sources_fixed"
    /\ UNCHANGED <<tick, updated, sid, pending, reqLog, pihole, server, containers,
                   dockerOut, data, file, observed, serverIn, zonesRead, waited,
                   hangs, firstDoc>>

\* lines 179-193: one whole run of main, a new process each time
RunMain ==
    /\ pc \in {"sources_fixed", "done", "failed", "crashed"}
    /\ tick < MaxTicks
    /\ tick' = tick + 1
    /\ updated' = FormatUpdated(NowAt(tick))
    /\ LET res == Collect(world, FormatUpdated(NowAt(tick)))
       IN  IF res.raised
           THEN /\ pc' = "crashed"
                /\ UNCHANGED <<data, file, firstDoc>>
           ELSE /\ data' = res.data
                /\ \E how \in {"written", "open_fails", "dump_fails"} :
                      /\ file' = WriteSnapshot(file, res.data, how)
                      /\ pc' = IF how = "written" THEN "done" ELSE "failed"
                      /\ firstDoc' = IF how = "written" /\ firstDoc = <<>>
                                     THEN WriteSnapshot(file, res.data, how).content
                                     ELSE firstDoc
    /\ UNCHANGED <<HAS_REQUESTS, HAS_PSUTIL, sid, pending, reqLog, pihole, server,
                   containers, dockerOut, observed, serverIn, zonesRead, waited,
                   hangs, world>>

NextTwice ==
    \/ FixSources
    \/ RunMain

SpecTwice == Init /\ [][NextTwice]_vars

-----------------------------------------------------------------------------
(* register-device.py: one invocation of main, request by request.         *)
(* reqLog records the requests sent to the VSS API                         *)

\* a response body or the value parsed from it: t is "empty" (no body),
\* "not_json", "list" or "dict"; for a dict, keys are its top-level keys and
\* backend, fields tell whether ["Backend"] and ["Backend"]["Fields"] are
\* "absent", "null" or a "dict"
Json(t, keys, backend, fields) ==
    [t |-> t, keys |-> keys, backend |-> backend, fields |-> fields]

\* what api_call returns for a response without a body
NoneJson == Json("empty", {}, "absent", "absent")

\* the bodies a response carries: nothing, text that is not JSON, a JSON
\* list, and JSON objects (empty, a device, sessions whose Backend or
\* Fields is missing, null or an object)
Bodies ==
    {NoneJson,
     Json("not_json", {}, "absent", "absent"),
     Json("list", {}, "absent", "absent"),
     Json("dict", {}, "absent", "absent"),
     Json("dict", {"State"}, "absent", "absent"),
     Json("dict", {"Backend"}, "null", "absent"),
     Json("dict", {"Backend"}, "dict", "absent"),
     Json("dict", {"Backend"}, "dict", "null"),
     Json("dict", {"Backend"}, "dict", "dict")}

\* what urlopen does with a request: it raises URLError or a timeout, it
\* raises HTTPError for a 4xx/5xx status, or it returns a 2xx response
ApiOutcomes ==
    {[kind |-> "url_error", status |-> 0, body |-> NoneJson]}
    \cup [kind : {"http_error"}, status : {404, 500}, body : {NoneJson}]
    \cup [kind : {"response"}, status : {200, 204}, body : Bodies]

\* lines 71-79: only HTTPError is caught; json.loads is applied to a body
\* that is not empty
api_call(o) ==
    CASE o.kind = "url_error"  -> [raised |-> TRUE, status |-> 0, value |-> NoneJson]
      [] o.kind = "http_error" -> [raised |-> FALSE, status |-> o.status,
                                   value |-> NoneJson]
      [] o.kind = "response"   -> [raised |-> o.body.t = "not_json",
                                   status |-> o.status, value |-> o.body]

IsDict(val) == val.t = "dict"

\* `if session`: None, {} and [] are false
TruthyJson(val) == val.t = "list" \/ (val.t = "dict" /\ val.keys # {})

\* line 93, device.get('State', 'unknown'): AttributeError unless device is
\* a dict
DeviceLineRaises(device) == ~IsDict(device)

\* lines 127-128, session.get("Backend", {}).get("Fields", {}).get("url", ""):
\* AttributeError when a link of the chain is not a dict
SessionCheckRaises(session) ==
    /\ TruthyJson(session)
    /\ \/ ~IsDict(session)
       \/ session.backend = "null"
       \/ session.backend = "dict" /\ session.fields = "null"

regKept ==
    <<tick, HAS_REQUESTS, HAS_PSUTIL, updated, sid, pending, pihole, server,
      containers, dockerOut, data, file, observed, serverIn, zonesRead, waited,
      hangs, world, firstDoc>>

\* line 82: the script is started
StartRegister ==
    /\ pc = "idle"
    /\ pc' = "lookup"
    /\ UNCHANGED reqLog
    /\ UNCHANGED regKept

\* lines 87-93: GET /device/{uuid}
LookupDevice ==
    /\ pc = "lookup"
    /\ \E o \in ApiOutcomes :
          LET res == api_call(o)
          IN  /\ reqLog' = Append(reqLog, Req("GET device", res))
              /\ pc' = IF res.raised THEN "reg_crashed"
                       ELSE IF res.status # 200 THEN "reg_not_found"
                       ELSE IF DeviceLineRaises(res.value) THEN "reg_crashed"
                       ELSE "put_device"
    /\ UNCHANGED regKept

\* lines 97-104: PUT /device/{uuid}; the status is only printed
PutDevice ==
    /\ pc = "put_device"
    /\ \E o \in ApiOutcomes :
          LET res == api_call(o)
          IN  /\ reqLog' = Append(reqLog, Req("PUT device", res))
              /\ pc' = IF res.raised THEN "reg_crashed" ELSE "put_session"
    /\ UNCHANGED regKept

\* lines 108-123: PUT /session/{uuid}; the status is only printed
PutSession ==
    /\ pc = "put_session"
    /\ \E o \in ApiOutcomes :
          LET res == api_call(o)
          IN  /\ reqLog' = Append(reqLog, Req("PUT session", res))
              /\ pc' = IF res.raised THEN "reg_crashed" ELSE "get_session"
    /\ UNCHANGED regKept

\* lines 126-133: GET /session/{uuid} and the check of the saved url
GetSession ==
    /\ pc = "get_session"
    /\ \E o \in ApiOutcomes :
          LET res == api_call(o)
          IN  /\ reqLog' = Append(reqLog, Req("GET session", res))
              /\ pc' = IF res.raised \/ SessionCheckRaises(res.value)
                       THEN "reg_crashed" ELSE "restart"
    /\ UNCHANGED regKept

\* lines 137-145: POST /session/{uuid}/restart
PostRestart ==
    /\ pc = "restart"
    /\ \E o \in ApiOutcomes :
          LET res == api_call(o)
          IN  /\ reqLog' = Append(reqLog, Req("POST restart", res))
              /\ pc' = IF res.raised THEN "reg_crashed" ELSE "reg_done"
    /\ UNCHANGED regKept

NextRegister ==
    \/ StartRegister
    \/ LookupDevice
    \/ PutDevice
    \/ PutSession
    \/ GetSession
    \/ PostRestart

SpecRegister == Init /\ [][NextRegister]_vars

-----------------------------------------------------------------------------
(* Properties of main (Spec) *)

\* C1 (as claimed): a reader of the output path, reading at any moment of any
\* invocation, never gets a truncated or partly written document
C1_ReaderNeverSeesPartial == observed # "truncated"

\* C2 (as claimed): whatever the adapters meet, main is never left by an
\* exception raised inside an adapter before the snapshot is written
C2_NoAdapterFailureStopsMain == pc # "crashed"

KeysWritten(f) == {f.content[i].key : i \in 1..Len(f.content)}

\* C3: every snapshot published (the document of a completed write, and the
\* dict handed to json.dump) has exactly the four top-level keys updated,
\* pihole, server, containers, whichever adapters failed
C3_FourKeys ==
    /\ file.whole => KeysWritten(file) = SnapshotKeys /\ Len(file.content) = 4
    /\ pc \in {"open", "dump", "report", "done", "failed"} => DOMAIN data = SnapshotKeys

\* C3 witness: a completed write whose Pi-hole slot is an error and whose
\* container slot is the synthetic error entry
C3_Witness ==
    /\ pc = "done"
    /\ file.whole
    /\ "error" \in DOMAIN file.content[2].value
    /\ file.content[4].value[1].name = "docker error"

\* C14: the invocation ends in a failure outcome only through a failure of
\* the write itself, that is, only once the four slots have been gathered
\* and the snapshot is being written
C14_FailureOnlyFromWrite ==
    pc \in {"failed", "crashed"} => pc = "failed" /\ DOMAIN data = SnapshotKeys


-----------------------------------------------------------------------------
(* Properties of get_pihole_stats (SpecPihole) *)

Sent(name) == {i \in 1..Len(reqLog) : reqLog[i].req = name}

\* the answer of request i was a response with a status outside 200..299
Non2xx(i) == ~reqLog[i].raised /\ (reqLog[i].status < 200 \/ reqLog[i].status > 299)

\* the login step failed: in transport, or with a non-2xx response
LoginFailed == Sent("login") # {} /\ \A i \in Sent("login") : reqLog[i].raised \/ Non2xx(i)

\* C4: when the login yielded a session token (a non-empty sid), exactly one
\* logout has been sent by the time the function returns, and it is the last
\* request; never more than one logout is sent
C4_LogoutExactlyOnce ==
    /\ Cardinality(Sent("logout")) <= 1
    /\ (pc \in {"return", "returned"} /\ Truthy(sid))
          => /\ Cardinality(Sent("logout")) = 1
             /\ reqLog[Len(reqLog)].req = "logout"

\* C4 witness: login gave a token, the summary fetch failed in transport,
\* and the function returned the error after one logout
C4_Witness ==
    /\ pc = "returned"
    /\ sid = "tok"
    /\ Len(reqLog) = 3
    /\ reqLog[2].req = "summary" /\ reqLog[2].raised
    /\ reqLog[3].req = "logout"
    /\ pihole = ErrorDict("ConnectionError")

\* C5: when the login step fails, no summary fetch and no logout is ever
\* sent, and the function returns a mapping whose only key is error
C5_LoginFailure ==
    LoginFailed =>
        /\ Sent("summary") = {}
        /\ Sent("logout") = {}
        /\ pc \in {"finally", "return"} => DOMAIN pending = {"error"}
        /\ pc = "returned" => DOMAIN pihole = {"error"}

\* C5 witness: the login was answered 401 and the function returned the error
C5_Witness ==
    /\ pc = "returned"
    /\ Len(reqLog) = 1
    /\ reqLog[1].req = "login" /\ reqLog[1].status = 401
    /\ pihole = ErrorDict("HTTPError")

\* C6 (as claimed): the function returns the seven counters or a mapping
\* whose only key is error, and nothing else
C6_CountersOrError ==
    pc = "returned" => DOMAIN pihole = CounterKeys \/ DOMAIN pihole = {"error"}

\* C7 (as claimed): when the login or the summary fetch is answered with a
\* non-2xx status, the function returns the error mapping, never counters
C7_Non2xxIsError ==
    (pc = "returned" /\ \E i \in Sent("login") \cup Sent("summary") : Non2xx(i))
        => DOMAIN pihole = {"error"}

-----------------------------------------------------------------------------
(* Properties of get_docker_containers (SpecDocker) *)

Running(s) == {i \in 1..Len(s) : s[i].running}
Stopped(s) == {i \in 1..Len(s) : ~s[i].running}

\* names ascending inside each of the two groups
NamesAscendInGroups(s) ==
    \A i, j \in 1..Len(s) :
        (i < j /\ s[i].running = s[j].running) => Rank(s[i].name) <= Rank(s[j].name)

ExampleDone == pc = "docker_done" /\ dockerOut.ok /\ dockerOut.lines = ExampleListing

NamesOf(s) == [i \in 1..Len(s) |-> s[i].name]

\* C8 (as claimed): for a successful listing every stopped container comes
\* before every running one, names ascending in each group; the example
\* yields a, b, c
C8_StoppedFirst ==
    (pc = "docker_done" /\ dockerOut.ok) =>
        /\ \A i \in Stopped(containers), j \in Running(containers) : i < j
        /\ NamesAscendInGroups(containers)
        /\ ExampleDone => NamesOf(containers) = <<"a", "b", "c">>

\* C8 (amended): for a successful listing every running container comes
\* before every stopped one, names ascending in each group, one entry per
\* non-blank line; the example yields b(UP), c(UP), a(DOWN)
C8_RunningFirst ==
    (pc = "docker_done" /\ dockerOut.ok) =>
        /\ \A i \in Running(containers), j \in Stopped(containers) : i < j
        /\ NamesAscendInGroups(containers)
        /\ Len(containers) = Cardinality({i \in 1..Len(dockerOut.lines) :
                                            ~IsBlank(dockerOut.lines[i])})
        /\ ExampleDone => /\ NamesOf(containers) = <<"b", "c", "a">>
                          /\ containers[1].status = "UP"
                          /\ containers[3].status = "DOWN"

\* C8 witness: the example listing has been sorted, a last
C8_Witness == ExampleDone /\ Len(containers) = 3 /\ containers[3].name = "a"

WellFormed(e) == e.status \in {"UP", "DOWN"} /\ (e.running <=> e.status = "UP")

\* C9 (as claimed): every entry, parsed or synthetic, has status UP or DOWN
\* and is running exactly when its status is UP
C9_EveryEntryUpOrDown ==
    pc = "docker_done" => \A i \in 1..Len(containers) : WellFormed(containers[i])

\* C9 (amended): every entry parsed from a listing has status UP or DOWN and
\* is running exactly when its status is UP; the entry produced when the
\* listing fails is not running and carries the error text as its status
C9_ParsedUpOrDown ==
    pc = "docker_done" =>
        IF dockerOut.ok
        THEN \A i \in 1..Len(containers) : WellFormed(containers[i])
        ELSE \A i \in 1..Len(containers) :
                /\ ~containers[i].running
                /\ containers[i].status = dockerOut.err
                /\ containers[i].status \notin {"UP", "DOWN"}

\* C9 witness: a listing with a running and a stopped container was parsed
C9_Witness ==
    /\ pc = "docker_done"
    /\ dockerOut.ok
    /\ \E i, j \in 1..Len(containers) :
          /\ containers[i].status = "UP" /\ containers[i].running
          /\ containers[j].status = "DOWN" /\ ~containers[j].running

\* C10: when the listing command fails, the result is exactly one entry,
\* and that entry is not running
C10_OneEntryOnFailure ==
    (pc = "docker_done" /\ ~dockerOut.ok) =>
        /\ Len(containers) = 1
        /\ ~containers[1].running

\* C10 witness: the listing timed out and one entry came back
C10_Witness ==
    /\ pc = "docker_done"
    /\ ~dockerOut.ok
    /\ dockerOut.err = "TimeoutExpired"
    /\ Len(containers) = 1

-----------------------------------------------------------------------------
(* Properties of get_server_stats (SpecServer) *)

ZonesIn == serverIn.inp.zones

\* zone i (file i + 1 of the input) holds a reading strictly between 10 and
\* 120 degrees
Qualifies(i) ==
    /\ ZonesIn[i + 1].exists /\ ZonesIn[i + 1].readable
    /\ ZonesIn[i + 1].milli > 10000 /\ ZonesIn[i + 1].milli < 120000

\* zone i has a file that cannot be read or parsed
Unreadable(i) == ZonesIn[i + 1].exists /\ ~ZonesIn[i + 1].readable

ZoneIds == 0..(Len(ZonesIn) - 1)

\* i is the lowest-indexed zone that qualifies
FirstQualifying(i) == i \in ZoneIds /\ Qualifies(i) /\ \A j \in 0..(i - 1) : ~Qualifies(j)

C12_UptimeFormat ==
    (pc = "server_done" /\ "uptime_str" \in DOMAIN server) =>
        LET s == serverIn.inp.up_secs
            u == server.uptime_str
            DaysHours == /\ u[2] = "d" /\ u[4] = "h"
                         /\ u[1] >= 0 /\ u[3] >= 0 /\ u[3] < 24
                         /\ u[1] * 86400 + u[3] * 3600 <= s
                         /\ s < u[1] * 86400 + (u[3] + 1) * 3600
            HoursMins == /\ u[2] = "h" /\ u[4] = "m"
                         /\ u[1] >= 0 /\ u[3] >= 0 /\ u[3] < 60
                         /\ u[1] * 3600 + u[3] * 60 <= s
                         /\ s < u[1] * 3600 + (u[3] + 1) * 60
        IN  /\ Len(u) = 4
            /\ IF serverIn.hasPsutil /\ s < 86400 THEN HoursMins ELSE DaysHours
            /\ s = 90000 => u = <<1, "d", 1, "h">>
            /\ s = 3000 =>
                  u = IF serverIn.hasPsutil THEN <<0, "h", 50, "m">> ELSE <<0, "d", 0, "h">>

\* C12 witness: 3000 seconds formatted on the fallback path
C12_Witness ==
    /\ pc = "server_done"
    /\ ~serverIn.hasPsutil
    /\ serverIn.inp.up_secs = 3000
    /\ "uptime_str" \in DOMAIN server
    /\ server.uptime_str = <<0, "d", 0, "h">>

\* C18: without psutil the function never raises; when the load-average
\* file cannot be read both load keys are absent and the uptime is still
\* collected; when the uptime file cannot be read the uptime is absent and
\* the load keys are kept
C18_FallbackPerField ==
    (pc # "idle" /\ ~serverIn.hasPsutil) =>
        /\ pc = "server_done"
        /\ serverIn.inp.loadFile = "missing" =>
              /\ "load_1" \notin DOMAIN server /\ "load_5" \notin DOMAIN server
              /\ serverIn.inp.upFile = "ok" => "uptime_str" \in DOMAIN server
        /\ serverIn.inp.upFile = "missing" =>
              /\ "uptime_str" \notin DOMAIN server
              /\ serverIn.inp.loadFile = "ok" =>
                    "load_1" \in DOMAIN server /\ "load_5" \in DOMAIN server

\* C18 witness: the load-average file was missing and the uptime was
\* collected all the same
C18_Witness ==
    /\ pc = "server_done"
    /\ ~serverIn.hasPsutil
    /\ serverIn.inp.loadFile = "missing"
    /\ serverIn.inp.upFile = "ok"
    /\ DOMAIN server \cap {"load_1", "load_5", "uptime_str"} = {"uptime_str"}

\* C19: a zone file that exists and cannot be read or parsed, met before
\* any qualifying zone, ends the probe: no zone above it is read and temp_c
\* is absent, whatever the zones above it hold
C19_UnreadableZoneEndsProbe ==
    pc = "server_done" =>
        \A i \in ZoneIds :
            (Unreadable(i) /\ \A j \in 0..(i - 1) : ~Qualifies(j)) =>
                /\ "temp_c" \notin DOMAIN server
                /\ \A j \in zonesRead : j <= i

\* C19 witness: zone 0 cannot be read, zone 1 holds 45 degrees, and the
\* result has no temp_c
C19_Witness ==
    /\ pc = "server_done"
    /\ ZonesIn = <<Zone(TRUE, FALSE, 0), Zone(TRUE, TRUE, 45000)>>
    /\ "temp_c" \notin DOMAIN server
    /\ zonesRead = {0}

-----------------------------------------------------------------------------
(* More properties of get_pihole_stats (SpecPihole) *)

\* C16: the finally block leaves the value decided in the try block as it
\* is and hands control to the return, whether the logout is sent or not
\* and whether it raises or not; the function returns that value
C16_LogoutLeavesResult ==
    [][ /\ pc = "finally" => pending' = pending /\ pc' = "return"
        /\ pc = "return" => pihole' = pending /\ pc' = "returned" ]_vars

\* C16 witness: the logout raised and the counters were returned
C16_Witness ==
    /\ pc = "returned"
    /\ \E i \in Sent("logout") : reqLog[i].raised
    /\ DOMAIN pihole = CounterKeys

-----------------------------------------------------------------------------
(* Properties of the blocking calls (SpecCalls) *)

\* C13: every invocation ends (snapshot written, or the process left by an
\* exception), whichever peers never answer
C13_MainTerminates == <>(pc \in {"done", "crashed", "failed"})

\* C13 witness: the summary fetch, the logout and the listing all met a
\* peer that never answers, and the invocation wrote its snapshot
C13_Witness ==
    /\ pc = "done"
    /\ hangs = {"summary", "logout", "docker"}
    /\ Len(reqLog) = 4

CallOrder(name) ==
    CASE name = "login" -> 1 [] name = "summary" -> 2 [] name = "logout" -> 3
      [] name = "docker" -> 4

\* C17: within one invocation each of login, summary fetch, logout and
\* container listing is issued at most once, and in that order
C17_NoRetries ==
    /\ \A c \in Calls : Cardinality(Sent(c)) <= 1
    /\ \A i, j \in 1..Len(reqLog) :
          i < j => CallOrder(reqLog[i].req) < CallOrder(reqLog[j].req)

\* C17 witness: the login failed, nothing was sent again, the listing ran
\* and the snapshot was written
C17_Witness ==
    /\ pc = "done"
    /\ Len(reqLog) = 2
    /\ reqLog[1].req = "login"
    /\ reqLog[2].req = "docker"

-----------------------------------------------------------------------------
(* Properties of repeated runs (SpecTwice) *)

\* the entries of a document other than the timestamp
ExceptUpdated(doc) == SelectSeq(doc, LAMBDA e : e.key # "updated")

\* C15: against unchanged sources, every run that writes a snapshot after
\* the first one writes the same document as the first, the entry updated
\* apart, whatever an earlier run left at the path
C15_RunsAgree ==
    pc = "done" /\ firstDoc # <<>> =>
        /\ Len(file.content) = Len(firstDoc)
        /\ ExceptUpdated(file.content) = ExceptUpdated(firstDoc)

\* C15 witness: a second run has written over the document of the first,
\* with another timestamp, a Pi-hole error slot and a container listing
C15_Witness ==
    /\ pc = "done"
    /\ tick = 2
    /\ Len(firstDoc) = 4
    /\ file.whole
    /\ file.content[1].value # firstDoc[1].value
    /\ "error" \in DOMAIN file.content[2].value
    /\ Len(file.content[4].value) > 1

-----------------------------------------------------------------------------
(* Properties of register-device main (SpecRegister) *)

RegisterEnded == pc \in {"reg_done", "reg_not_found", "reg_crashed"}

RequestsSent == [i \in 1..Len(reqLog) |-> reqLog[i].req]

\* C20: when the lookup of the device returns a status other than 200 no
\* state-changing request is sent; when it returns 200 the run sends
\* PUT device, PUT session, GET session, POST restart, each once and in
\* this order, whatever statuses they return
C20_FixedSequenceAfterLookup ==
    RegisterEnded /\ Len(reqLog) > 0 /\ ~reqLog[1].raised =>
        IF reqLog[1].status # 200
        THEN RequestsSent = <<"GET device">>
        ELSE RequestsSent = <<"GET device", "PUT device", "PUT session",
                              "GET session", "POST restart">>

====
